---------------------------- MODULE Spec2Model ----------------------------
(***************************************************************************)
(* Model of the realtime-leaderboard service.                              *)
(*                                                                         *)
(*   - LeaderboardService (src/application/services.py) orchestrates       *)
(*   - RedisLeaderboardRepository (src/infrastructure/redis_repository.py) *)
(*     the ranked index, kept in Redis sorted sets, and                    *)
(*   - PostgresScoreHistoryRepository                                      *)
(*     (src/infrastructure/history_repository.py), the event log, kept in  *)
(*     the score_history table.                                            *)
(*                                                                         *)
(* Every request handler is a coroutine; each `await` on Redis or on the   *)
(* database is a point where other requests run, so each awaited command   *)
(* is one atomic step of the model and the handlers interleave between     *)
(* them.  A single Redis command is atomic (Redis executes commands one    *)
(* at a time).                                                             *)
(*                                                                         *)
(* user_ids are modelled as integers; the integer order stands for the     *)
(* byte-wise lexicographic order of the member strings.  Scores are        *)
(* non-negative integers (ScoreSubmission.score has ge=0).                 *)
(* The score_history.score column is a 32-bit Integer, so every score that *)
(* passes the append is exactly representable as the double Redis stores   *)
(* and int(float) gives it back unchanged: the float round trip of a       *)
(* score is exact on every value the model can hold.                       *)
(***************************************************************************)
EXTENDS Integers, Sequences, FiniteSets, Bags, TLC

---------------------------------------------------------------------------
(* Bounds of the model *)

(* submissions appended to the event log in a run of Spec *)
MaxEvents == 3
(* submissions appended to the event log in a run of SpecQuery *)
MaxQueryEvents == 2
(* page numbers 1..MaxPage and page sizes 0..MaxPageSize of a page read *)
MaxPage == 2
MaxPageSize == 2
(* rows of the score_history table a report is run over in SpecReport *)
MaxReportEvents == 2
(* limits 0..MaxLimit of a report *)
MaxLimit == 2

(* Two users, so that ties, rank order and cardinality all show; two score *)
(* values, so that a submission can be lower than, equal to or greater     *)
(* than the stored one.                                                    *)
Users == {1, 2}
Scores == {0, 1}

(* Dates, and the instants of the clock: <<date, time of day>>.  Time of   *)
(* day 0 is 00:00:00, time of day 1 is any later moment of that date.      *)
Dates == {0, 1}
TimesOfDay == {0, 1}
Instants == Dates \X TimesOfDay

(* Two requests in flight at a time *)
Procs == {"r1", "r2"}

(* src/core/models.py:8 *)
GLOBAL_LEADERBOARD_KEY == "global_leaderboard"

(* game_id values a caller may pass (the global key and one other game) *)
Games == {GLOBAL_LEADERBOARD_KEY, "g1"}

(* Python's None / an Optional value *)
None == <<>>
Some(x) == <<x>>

---------------------------------------------------------------------------
(* Redis sorted-set commands, as the repository calls them.  A sorted set  *)
(* is a function from its members to their scores.                         *)

EmptyZSet == <<>>

(* Variant: ZADD without GT, the score is always overwritten *)
ZAddPlain(z, member, score) ==
    [m \in DOMAIN z \cup {member} |-> IF m = member THEN score ELSE z[m]]

(* Variant: ZADD with LT in place of GT, an existing member is updated     *)
(* only when the new score is lower                                        *)
ZAddLT(z, member, score) ==
    IF member \notin DOMAIN z
    THEN [m \in DOMAIN z \cup {member} |-> IF m = member THEN score ELSE z[m]]
    ELSE IF score < z[member] THEN [z EXCEPT ![member] = score] ELSE z

(* ZADD key GT member score: a new member is always added; an existing     *)
(* member is updated only when the new score is greater.                   *)
ZAddGT(z, member, score) ==
    IF member \notin DOMAIN z
    THEN [m \in DOMAIN z \cup {member} |-> IF m = member THEN score ELSE z[m]]
    ELSE IF score > z[member] THEN [z EXCEPT ![member] = score] ELSE z

(* The reply of ZADD without CH: the number of members newly added.        *)
ZAddReply(z, member) == IF member \notin DOMAIN z THEN 1 ELSE 0

(* ZSCORE key member *)
ZScore(z, member) == IF member \in DOMAIN z THEN Some(z[member]) ELSE None

(* ZCARD key *)
ZCard(z) == Cardinality(DOMAIN z)

(* Variant: members of equal score in lexicographic order *)
ZRevBeforeTiesAscending(z, a, b) == z[a] > z[b] \/ (z[a] = z[b] /\ a < b)

(* Order of ZREVRANGE / ZREVRANK: score descending, and members of equal   *)
(* score in reverse lexicographic order.                                   *)
ZRevBefore(z, a, b) == z[a] > z[b] \/ (z[a] = z[b] /\ a > b)

(* ZREVRANK key member: 0-based position in the reversed order *)
ZRevRank(z, member) ==
    IF member \in DOMAIN z
    THEN Some(Cardinality({m \in DOMAIN z : ZRevBefore(z, m, member)}))
    ELSE None

(* The whole set in ZREVRANGE order, as <<member, score>> pairs *)
ZRevAll(z) ==
    [i \in 1..ZCard(z) |->
        LET m == CHOOSE m \in DOMAIN z : ZRevRank(z, m) = Some(i - 1)
        IN  <<m, z[m]>>]

(* ZREVRANGE key start stop WITHSCORES: 0-based inclusive indices, a       *)
(* negative index counts from the end of the set.                          *)
ZRevRange(z, start, stop) ==
    LET n  == ZCard(z)
        s0 == IF start < 0 THEN start + n ELSE start
        s  == IF s0 < 0 THEN 0 ELSE s0
        e0 == IF stop < 0 THEN stop + n ELSE stop
        e  == IF e0 >= n THEN n - 1 ELSE e0
    IN  IF s > e \/ s >= n THEN <<>> ELSE SubSeq(ZRevAll(z), s + 1, e + 1)


---------------------------------------------------------------------------
(* RedisLeaderboardRepository *)

(* _get_zset_key: every game_id maps to the one global sorted set *)
_get_zset_key(game_id) == GLOBAL_LEADERBOARD_KEY

(* submit_score, the ZADD ... GT command: the sorted sets after it *)
submit_score_zadd(zs, user_id, game_id, score) ==
    LET key == _get_zset_key(game_id)
    IN  [zs EXCEPT ![key] = ZAddGT(zs[key], user_id, score)]

(* submit_score, `saved_score`: the reply of that ZADD *)
submit_score_reply(zs, user_id, game_id) ==
    ZAddReply(zs[_get_zset_key(game_id)], user_id)

(* submit_score, the read-back after a reply of 0:                         *)
(*   int(current_score) if current_score is not None else score            *)
(* Variant: the submitted score is returned without the read-back *)
submit_score_no_readback(zs, user_id, game_id, score) == score

submit_score_readback(zs, user_id, game_id, score) ==
    LET current_score == ZScore(zs[_get_zset_key(game_id)], user_id)
    IN  IF current_score # None THEN current_score[1] ELSE score

(* get_leaderboard_page: ZREVRANGE start end WITHSCORES, decoded *)
get_leaderboard_page(zs, game_id, start, end) ==
    LET raw_results == ZRevRange(zs[_get_zset_key(game_id)], start, end)
    IN  [i \in 1..Len(raw_results) |->
            [user_id |-> raw_results[i][1], score |-> raw_results[i][2]]]

(* get_total_entries: ZCARD *)
get_total_entries(zs, game_id) == ZCard(zs[_get_zset_key(game_id)])

(* get_user_rank_and_score, first command: ZREVRANK *)
get_user_rank_zrevrank(zs, user_id, game_id) ==
    ZRevRank(zs[_get_zset_key(game_id)], user_id)

(* get_user_rank_and_score, second command: ZSCORE, and the dict returned: *)
(*   {'rank': rank, 'score': int(score) if score is not None else 0}       *)
get_user_rank_zscore(zs, user_id, game_id, rank) ==
    LET score == ZScore(zs[_get_zset_key(game_id)], user_id)
    IN  [rank |-> rank, score |-> IF score # None THEN score[1] ELSE 0]

---------------------------------------------------------------------------
(* PostgresScoreHistoryRepository *)

(* Variant: the row is filed under the global key *)
ScoreHistoryDBGlobalKey(user_id, submission, utcnow) ==
    [user_id |-> user_id, game_id |-> GLOBAL_LEADERBOARD_KEY,
     score |-> submission.score, timestamp |-> utcnow]

(* log_score_submission: the ScoreHistoryDB row built from the submission; *)
(* the timestamp column defaults to datetime.utcnow                        *)
ScoreHistoryDB(user_id, submission, utcnow) ==
    [user_id |-> user_id, game_id |-> submission.game_id,
     score |-> submission.score, timestamp |-> utcnow]

(* log_score_submission: session.add(history_db); await session.flush()    *)
(* The rows of a session are a bag: the table has no order of its own.     *)
log_score_submission(sess, user_id, submission, utcnow) ==
    sess (+) SetToBag({ScoreHistoryDB(user_id, submission, utcnow)})

(* get_top_players_report: start_date and end_date are dates, the column   *)
(* is a DateTime; a date compared with a timestamp stands for that date at *)
(* 00:00:00                                                                *)
DateTime(date) == <<date, 0>>

(* t1 <= t2 on timestamps *)
NotAfter(t1, t2) == t1[1] < t2[1] \/ (t1[1] = t2[1] /\ t1[2] <= t2[2])

(* ScoreHistoryDB.timestamp.between(start_date, end_date) *)
between(timestamp, start_date, end_date) ==
    NotAfter(DateTime(start_date), timestamp) /\ NotAfter(timestamp, DateTime(end_date))

(* get_top_players_report: the WHERE clause of the subquery *)
ReportRows(rows, game_id, start_date, end_date) ==
    {e \in BagToSet(rows) :
        e.game_id = game_id /\ between(e.timestamp, start_date, end_date)}

RECURSIVE SumOver(_, _)
SumOver(S, f) ==
    IF S = {} THEN 0
    ELSE LET x == CHOOSE y \in S : TRUE IN f[x] + SumOver(S \ {x}, f)

---------------------------------------------------------------------------
(* LeaderboardService *)

(* Variant: the index is updated before the event is appended *)
submit_new_score_order_index_first == <<"zadd", "log">>

(* submit_new_score: the order of its two awaited calls *)
submit_new_score_order == <<"log", "zadd">>

FirstStep == submit_new_score_order[1]
StepAfter(step) ==
    IF step = submit_new_score_order[1] THEN submit_new_score_order[2] ELSE "done"

(* Variant: a failed append is swallowed and the submission goes on *)
AfterLogSwallowed(ok) == StepAfter("log")

(* submit_new_score: an exception of log_score_submission is not caught,   *)
(* it leaves submit_new_score at once                                      *)
AfterLog(ok) == IF ok THEN StepAfter("log") ELSE "failed"

(* submit_new_score / submit_score: an exception of a Redis command is not *)
(* caught either                                                           *)
AfterIndex(ok, next) == IF ok THEN next ELSE "failed"

(* get_leaderboard: start = (page - 1) * page_size *)
PageStart(page, page_size) == (page - 1) * page_size

(* get_leaderboard: end = start + page_size - 1 *)
PageEnd(page, page_size) == PageStart(page, page_size) + page_size - 1

(* Variant: the 1-based slot is taken for the 0-based i *)
EntryRankFromSlot(start, slot) == start + slot + 1

(* get_leaderboard: rank = start + i + 1, i the 0-based slot (Slot - 1) *)
EntryRank(start, slot) == start + (slot - 1) + 1

(* get_leaderboard: the LeaderboardResponse built from the two reads *)
LeaderboardResponse(raw_entries, total_entries, start) ==
    IF raw_entries = <<>>
    THEN [total_entries |-> 0, leaderboard |-> <<>>]
    ELSE [total_entries |-> total_entries,
          leaderboard |->
              [i \in 1..Len(raw_entries) |->
                  [rank |-> EntryRank(start, i),
                   user_id |-> raw_entries[i].user_id,
                   score |-> raw_entries[i].score]]]

(* Variant: the 0-based rank of ZREVRANK is passed on as it is *)
ZeroBased(rank0) == rank0

(* get_user_rank: rank = user_data['rank'] + 1 *)
OneBased(rank0) == rank0 + 1

(* get_user_rank: the UserRankResponse; user_data is None or Some(dict) *)
(* Variant: an unranked user is answered with rank 0 *)
UserRankResponseRankZero(user_data) ==
    IF user_data = None
    THEN [rank |-> Some(0), score |-> 0]
    ELSE [rank |-> Some(OneBased(user_data[1].rank)), score |-> user_data[1].score]

UserRankResponse(user_data) ==
    IF user_data = None
    THEN [rank |-> None, score |-> 0]
    ELSE [rank |-> Some(OneBased(user_data[1].rank)), score |-> user_data[1].score]

(* get_user_rank on sorted sets that no submission changes meanwhile *)
get_user_rank(zs, user_id, game_id) ==
    LET rank == get_user_rank_zrevrank(zs, user_id, game_id)
    IN  IF rank = None
        THEN UserRankResponse(None)
        ELSE UserRankResponse(Some(get_user_rank_zscore(zs, user_id, game_id, rank[1])))


---------------------------------------------------------------------------
(* State *)

VARIABLES
    zsets,      \* Redis: sorted-set key -> sorted set
    history,    \* score_history: the committed rows (a bag)
    session,    \* per request: the rows its database session has flushed
    pc,         \* per request: the await it is suspended at
    args,       \* per request: the operation and its arguments
    local,      \* per request: the local variables of its handler
    accepted    \* history variable: game_id -> (user_id -> the greatest score
                \*   of that game and user handed to the index so far)

vars == <<zsets, history, session, pc, args, local, accepted>>

NoArgs ==
    [op |-> "none", user_id |-> 0, game_id |-> "", score |-> 0,
     page |-> 0, page_size |-> 0, start_date |-> 0, end_date |-> 0, limit |-> 0]

NoError == [status_code |-> 200, detail |-> ""]

(* `seen` and `held` are history variables.  seen: the sorted set as it    *)
(* was at a query's first read, or right after a submission's own ZADD.    *)
(* held: what get_user_rank would have answered in each state of the index *)
(* from the request's first read to its last.                              *)
NoLocal ==
    [raw_entries |-> <<>>, total_entries |-> 0, rank |-> None,
     saved_score |-> 0, page_resp |-> [total_entries |-> 0, leaderboard |-> <<>>],
     rank_resp |-> [rank |-> None, score |-> 0], report |-> <<>>,
     error |-> NoError, seen |-> EmptyZSet, held |-> {}]

RECURSIVE FlushedRows(_)
FlushedRows(S) ==
    IF S = {} THEN 0
    ELSE LET p == CHOOSE q \in S : TRUE
         IN  BagCardinality(session[p]) + FlushedRows(S \ {p})

(* The events appended so far: committed, or flushed by an open session *)
EventCount == BagCardinality(history) + FlushedRows(Procs)

Init ==
    /\ zsets = [k \in Games |-> EmptyZSet]
    /\ history = EmptyBag
    /\ session = [p \in Procs |-> EmptyBag]
    /\ pc = [p \in Procs |-> "idle"]
    /\ args = [p \in Procs |-> NoArgs]
    /\ local = [p \in Procs |-> NoLocal]
    /\ accepted = [k \in Games |-> EmptyZSet]

---------------------------------------------------------------------------
(* POST /scores/submit -> LeaderboardService.submit_new_score *)

submit_score_endpoint(p, user_id, game_id, score) ==
    /\ pc[p] = "idle"
    /\ args' = [args EXCEPT ![p] =
                   [NoArgs EXCEPT !.op = "submit", !.user_id = user_id,
                                  !.game_id = game_id, !.score = score]]
    /\ pc' = [pc EXCEPT ![p] = FirstStep]
    /\ UNCHANGED <<zsets, history, session, local, accepted>>

(* await self.history_repo.log_score_submission(user_id, submission) *)
LogScoreSubmission(p, clock) ==
    /\ pc[p] = "log"
    /\ \E ok \in BOOLEAN, utcnow \in clock :
        /\ session' = [session EXCEPT ![p] =
                          IF ok THEN log_score_submission(session[p], args[p].user_id,
                                                          args[p], utcnow)
                          ELSE session[p]]
        /\ pc' = [pc EXCEPT ![p] = AfterLog(ok)]
    /\ UNCHANGED <<zsets, history, args, local, accepted>>

(* await self.redis.zadd(key, {user_id: score}, gt=True), and             *)
(* `if saved_score == 0` of submit_score                                   *)
SubmitScoreZadd(p) ==
    /\ pc[p] = "zadd"
    /\ \E ok \in BOOLEAN :
        LET a     == args[p]
            reply == submit_score_reply(zsets, a.user_id, a.game_id)
            zs2   == IF ok
                     THEN submit_score_zadd(zsets, a.user_id, a.game_id, a.score)
                     ELSE zsets
        IN  /\ zsets' = zs2
            /\ accepted' =
                   IF ok
                   THEN [accepted EXCEPT ![a.game_id] = ZAddGT(@, a.user_id, a.score)]
                   ELSE accepted
            /\ local' =
                   [q \in Procs |->
                       IF q = p
                       THEN IF ok
                            THEN [local[p] EXCEPT
                                     !.saved_score = IF reply # 0 THEN a.score ELSE @,
                                     !.seen = zs2[_get_zset_key(a.game_id)]]
                            ELSE local[p]
                       ELSE IF pc[q] = "rank_zscore"
                            THEN [local[q] EXCEPT
                                     !.held = @ \cup {get_user_rank(zs2, args[q].user_id,
                                                                    args[q].game_id)}]
                            ELSE local[q]]
            /\ pc' = [pc EXCEPT ![p] =
                         AfterIndex(ok, IF reply = 0 THEN "zscore" ELSE StepAfter("zadd"))]
    /\ UNCHANGED <<history, session, args>>

(* current_score = await self.redis.zscore(key, user_id) *)
SubmitScoreZscore(p) ==
    /\ pc[p] = "zscore"
    /\ \E ok \in BOOLEAN :
        LET a == args[p]
        IN  /\ local' = IF ok
                        THEN [local EXCEPT ![p].saved_score =
                                 submit_score_readback(zsets, a.user_id, a.game_id, a.score)]
                        ELSE local
            /\ pc' = [pc EXCEPT ![p] = AfterIndex(ok, StepAfter("zadd"))]
    /\ UNCHANGED <<zsets, history, session, args, accepted>>

---------------------------------------------------------------------------
(* GET /leaderboard/global -> LeaderboardService.get_leaderboard *)

get_leaderboard_endpoint(p, game_id, page, page_size) ==
    /\ pc[p] = "idle"
    /\ args' = [args EXCEPT ![p] =
                   [NoArgs EXCEPT !.op = "page", !.game_id = game_id,
                                  !.page = page, !.page_size = page_size]]
    /\ pc' = [pc EXCEPT ![p] = "zrevrange"]
    /\ UNCHANGED <<zsets, history, session, local, accepted>>

(* raw_entries = await self.leaderboard_repo.get_leaderboard_page(...) *)
GetLeaderboardPage(p) ==
    /\ pc[p] = "zrevrange"
    /\ LET a == args[p]
       IN  local' = [local EXCEPT
               ![p].raw_entries =
                   get_leaderboard_page(zsets, a.game_id,
                       PageStart(a.page, a.page_size), PageEnd(a.page, a.page_size)),
               ![p].seen = zsets[_get_zset_key(a.game_id)]]
    /\ pc' = [pc EXCEPT ![p] = "zcard"]
    /\ UNCHANGED <<zsets, history, session, args, accepted>>

(* total_entries = await self.leaderboard_repo.get_total_entries(game_id), *)
(* and the response built after it                                         *)
GetLeaderboardTotal(p) ==
    /\ pc[p] = "zcard"
    /\ LET a     == args[p]
           total == get_total_entries(zsets, a.game_id)
       IN  local' = [local EXCEPT
               ![p].total_entries = total,
               ![p].page_resp =
                   LeaderboardResponse(local[p].raw_entries, total,
                                       PageStart(a.page, a.page_size))]
    /\ pc' = [pc EXCEPT ![p] = "done"]
    /\ UNCHANGED <<zsets, history, session, args, accepted>>

---------------------------------------------------------------------------
(* GET /leaderboard/my_rank -> LeaderboardService.get_user_rank *)

get_user_rank_endpoint(p, user_id, game_id) ==
    /\ pc[p] = "idle"
    /\ args' = [args EXCEPT ![p] =
                   [NoArgs EXCEPT !.op = "rank", !.user_id = user_id,
                                  !.game_id = game_id]]
    /\ pc' = [pc EXCEPT ![p] = "zrevrank"]
    /\ UNCHANGED <<zsets, history, session, local, accepted>>

(* rank = await self.redis.zrevrank(key, user_id); `if rank is None` *)
GetUserRankZrevrank(p) ==
    /\ pc[p] = "zrevrank"
    /\ LET a    == args[p]
           rank == get_user_rank_zrevrank(zsets, a.user_id, a.game_id)
       IN  /\ local' = [local EXCEPT
                   ![p].rank = rank,
                   ![p].seen = zsets[_get_zset_key(a.game_id)],
                   ![p].held = {get_user_rank(zsets, a.user_id, a.game_id)},
                   ![p].rank_resp =
                       IF rank = None THEN UserRankResponse(None) ELSE @]
           /\ pc' = [pc EXCEPT ![p] = IF rank = None THEN "done" ELSE "rank_zscore"]
    /\ UNCHANGED <<zsets, history, session, args, accepted>>

(* score = await self.redis.zscore(key, user_id), and the response *)
GetUserRankZscore(p) ==
    /\ pc[p] = "rank_zscore"
    /\ LET a == args[p]
       IN  local' = [local EXCEPT
               ![p].rank_resp =
                   UserRankResponse(
                       Some(get_user_rank_zscore(zsets, a.user_id, a.game_id,
                                                 local[p].rank[1])))]
    /\ pc' = [pc EXCEPT ![p] = "done"]
    /\ UNCHANGED <<zsets, history, session, args, accepted>>

---------------------------------------------------------------------------
(* GET /reports/top_players -> LeaderboardService.get_historical_report    *)
(*   -> PostgresScoreHistoryRepository.get_top_players_report              *)

(* Variant: the score of a report entry is served from the live index *)
highest_score_from_index(selected, user_id) ==
    IF user_id \in DOMAIN zsets[GLOBAL_LEADERBOARD_KEY]
    THEN zsets[GLOBAL_LEADERBOARD_KEY][user_id]
    ELSE 0

(* func.max(ScoreHistoryDB.score) of a user's group *)
highest_score(selected, user_id) ==
    CHOOSE s \in {e.score : e \in {r \in selected : r.user_id = user_id}} :
        \A e \in selected : e.user_id = user_id => e.score <= s

(* func.count(ScoreHistoryDB.id) of a user's group *)
total_scores_submitted(rows, selected, user_id) ==
    LET group == {e \in selected : e.user_id = user_id}
    IN  SumOver(group, [e \in group |-> CopiesIn(e, rows)])

(* The subquery's SELECT ... WHERE ... GROUP BY user_id: one row per user  *)
(* with an event of the window                                             *)
ReportGroups(rows, game_id, start_date, end_date) ==
    LET selected == ReportRows(rows, game_id, start_date, end_date)
    IN  {[user_id |-> u,
          highest_score |-> highest_score(selected, u),
          total_scores_submitted |-> total_scores_submitted(rows, selected, u)] :
            u \in {e.user_id : e \in selected}}

(* .order_by(func.max(ScoreHistoryDB.score).desc()).limit(limit), read by  *)
(* the outer SELECT.  The ORDER BY names the score alone: among groups of  *)
(* equal highest_score the database is free to emit any order, and so to   *)
(* keep any of them under the LIMIT.  The result is one of these.          *)
OrderByLimit(groups, limit) ==
    LET n      == Cardinality(groups)
        orders == {s \in [1..n -> groups] :
                      \A i, j \in 1..n :
                          i < j => /\ s[i] # s[j]
                                   /\ s[i].highest_score >= s[j].highest_score}
    IN  {SubSeq(s, 1, IF limit < n THEN limit ELSE n) : s \in orders}

(* The report list built from the rows read: rank = i + 1, i 0-based *)
HistoricalReport(raw_report_data, game_id, start_date, end_date) ==
    [i \in 1..Len(raw_report_data) |->
        [rank |-> (i - 1) + 1,
         user_id |-> raw_report_data[i].user_id,
         game_id |-> game_id,
         score |-> raw_report_data[i].highest_score,
         total_scores_submitted |-> raw_report_data[i].total_scores_submitted,
         date_range_start |-> start_date,
         date_range_end |-> end_date]]

(* get_top_players_report: the reports the query may return *)
get_top_players_report(rows, game_id, start_date, end_date, limit) ==
    {HistoricalReport(raw, game_id, start_date, end_date) :
        raw \in OrderByLimit(ReportGroups(rows, game_id, start_date, end_date), limit)}

(* LeaderboardService.get_historical_report hands the call on *)
get_historical_report(rows, game_id, start_date, end_date, limit) ==
    get_top_players_report(rows, game_id, start_date, end_date, limit)

(* raise HTTPException(status_code=400, ...) *)
StartAfterEnd == [status_code |-> 400, detail |-> "Start date cannot be after end date."]

(* str(e) of an HTTPException: "<status_code>: <detail>", kept as the pair *)
(* of its two parts                                                        *)
HTTPExceptionStr(e) == <<e.status_code, e.detail>>

(* except Exception as e: raise HTTPException(status_code=500,             *)
(* detail=str(e)).  HTTPException is an Exception and not a pydantic       *)
(* ValidationError, so this clause catches the 400 raised in the try block *)
(* as well.                                                                *)
report_endpoint_except(e) == [status_code |-> 500, detail |-> HTTPExceptionStr(e)]

get_top_players_report_endpoint(p, game_id, start_date, end_date, limit) ==
    /\ pc[p] = "idle"
    /\ args' = [args EXCEPT ![p] =
                   [NoArgs EXCEPT !.op = "report", !.game_id = game_id,
                                  !.start_date = start_date, !.end_date = end_date,
                                  !.limit = limit]]
    /\ IF start_date > end_date
       THEN /\ local' = [local EXCEPT ![p].error = report_endpoint_except(StartAfterEnd)]
            /\ pc' = [pc EXCEPT ![p] = "failed"]
       ELSE /\ pc' = [pc EXCEPT ![p] = "report"]
            /\ UNCHANGED local
    /\ UNCHANGED <<zsets, history, session, accepted>>

(* result = await self.session.execute(stmt), and the report built from it *)
GetTopPlayersReport(p) ==
    /\ pc[p] = "report"
    /\ LET a == args[p]
       IN  \E report \in get_historical_report(history, a.game_id, a.start_date,
                                               a.end_date, a.limit) :
               local' = [local EXCEPT ![p].report = report]
    /\ pc' = [pc EXCEPT ![p] = "done"]
    /\ UNCHANGED <<zsets, history, session, args, accepted>>

---------------------------------------------------------------------------
(* The end of a request.  The session's life cycle (api/dependencies.py)   *)
(* is not part of the sources at hand; SessionEnd follows the design's     *)
(* ordering contract: what a request appended stays recorded, whether the  *)
(* request then succeeded or failed.                                       *)

SessionEnd(committed, sess) == committed (+) sess

RequestEnds(p) ==
    /\ pc[p] \in {"done", "failed"}
    /\ history' = SessionEnd(history, session[p])
    /\ session' = [session EXCEPT ![p] = EmptyBag]
    /\ pc' = [pc EXCEPT ![p] = "idle"]
    /\ args' = [args EXCEPT ![p] = NoArgs]
    /\ local' = [local EXCEPT ![p] = NoLocal]
    /\ UNCHANGED <<zsets, accepted>>

---------------------------------------------------------------------------
(* Specifications.                                                         *)
(*                                                                         *)
(* Spec: both requests are submissions, interleaved at every await.  The   *)
(* queries change nothing but their own locals, so leaving them out takes  *)
(* no state of the index or of the event log away.                         *)
(*                                                                         *)
(* SpecQuery: request r1 submits while request r2 queries.  One submitter  *)
(* can complete any number of submissions between two steps of the query,  *)
(* so the query meets every sequence of index states that concurrent       *)
(* submitters can produce.                                                 *)

Submitter == "r1"
Querier == "r2"

(* The one clock reading of Spec, SpecQuery and SpecRank: what they check  *)
(* does not read the timestamp of an event                                 *)
Epoch == {<<0, 0>>}

SubmitStep(p, cap) ==
    \/ /\ EventCount < cap
       /\ \E u \in Users, g \in Games, s \in Scores : submit_score_endpoint(p, u, g, s)
    \/ LogScoreSubmission(p, Epoch)
    \/ SubmitScoreZadd(p)
    \/ SubmitScoreZscore(p)
    \/ RequestEnds(p)

RankStep(p) ==
    \/ \E u \in Users, g \in Games : get_user_rank_endpoint(p, u, g)
    \/ GetUserRankZrevrank(p)
    \/ GetUserRankZscore(p)

QueryStep(p) ==
    \/ \E g \in Games, page \in 1..MaxPage, page_size \in 0..MaxPageSize :
           get_leaderboard_endpoint(p, g, page, page_size)
    \/ GetLeaderboardPage(p)
    \/ GetLeaderboardTotal(p)
    \/ RankStep(p)
    \/ RequestEnds(p)

ReportStep(p) ==
    \/ \E g \in Games, start_date \in Dates, end_date \in Dates, limit \in 0..MaxLimit :
           get_top_players_report_endpoint(p, g, start_date, end_date, limit)
    \/ GetTopPlayersReport(p)

Next == \E p \in Procs : SubmitStep(p, MaxEvents)

Spec == Init /\ [][Next]_vars

NextQuery == SubmitStep(Submitter, MaxQueryEvents) \/ QueryStep(Querier)

SpecQuery == Init /\ [][NextQuery]_vars

(* SpecRank: request r1 submits while request r2 asks for ranks.  Three     *)
(* submissions, so that a user can overtake another between the two reads  *)
(* of a rank request.                                                      *)
NextRank == SubmitStep(Submitter, MaxEvents) \/ RankStep(Querier) \/ RequestEnds(Querier)

SpecRank == Init /\ [][NextRank]_vars

(* SpecReport: the queries over a score_history table of up to             *)
(* MaxReportEvents rows, logged at any instants, and the index that the    *)
(* submissions of these rows have left.                                    *)
ScoreHistoryRows ==
    {ScoreHistoryDB(u, [game_id |-> g, score |-> s], t) :
        u \in Users, g \in Games, s \in Scores, t \in Instants}

RECURSIVE Tables(_)
Tables(n) ==
    IF n = 0 THEN {EmptyBag}
    ELSE LET T == Tables(n - 1)
         IN  T \cup {t (+) SetToBag({r}) : t \in T, r \in ScoreHistoryRows}

RECURSIVE Submitted(_, _)
Submitted(zs, S) ==
    IF S = {} THEN zs
    ELSE LET e == CHOOSE x \in S : TRUE
         IN  Submitted(submit_score_zadd(zs, e.user_id, e.game_id, e.score), S \ {e})

RECURSIVE Accepted(_, _)
Accepted(acc, S) ==
    IF S = {} THEN acc
    ELSE LET e == CHOOSE x \in S : TRUE
         IN  Accepted([acc EXCEPT ![e.game_id] = ZAddGT(@, e.user_id, e.score)], S \ {e})

InitReport ==
    /\ history \in Tables(MaxReportEvents)
    /\ zsets = Submitted([k \in Games |-> EmptyZSet], BagToSet(history))
    /\ accepted = Accepted([k \in Games |-> EmptyZSet], BagToSet(history))
    /\ session = [p \in Procs |-> EmptyBag]
    /\ pc = [p \in Procs |-> "idle"]
    /\ args = [p \in Procs |-> NoArgs]
    /\ local = [p \in Procs |-> NoLocal]

NextReport == QueryStep(Querier) \/ ReportStep(Querier)

SpecReport == InitReport /\ [][NextReport]_vars


---------------------------------------------------------------------------
(* Vocabulary of the properties *)

(* The index a key's reads and writes go to *)
IndexOf(game_id) == zsets[_get_zset_key(game_id)]

(* The event a submission is to leave in the log *)
EventOf(a) == [user_id |-> a.user_id, game_id |-> a.game_id, score |-> a.score]

(* A row of the log without its timestamp, and a bag of rows likewise *)
Event(row) == [user_id |-> row.user_id, game_id |-> row.game_id, score |-> row.score]
Events(rows) == BagOfAll(Event, rows)

IsSubmit(p) == args[p].op = "submit"
IsPage(p) == args[p].op = "page"

(* Request p holds the entries of a page read *)
HasPage(p) == IsPage(p) /\ pc[p] \in {"zcard", "done"}

(* The index p has read is the index as it is now *)
Unchanged(p) == local[p].seen = IndexOf(args[p].game_id)

(* p takes the step that leaves the await `at` *)
Leaves(p, at) == pc[p] = at /\ pc'[p] # at

IsRank(p) == args[p].op = "rank"
IsReport(p) == args[p].op = "report"

(* Request p holds the report it asked for *)
HasReport(p) == IsReport(p) /\ pc[p] = "done"

(* The date of a timestamp *)
DateOf(timestamp) == timestamp[1]

(* The logged events of a user under a key *)
LoggedFor(game_id, user_id) ==
    {e \in BagToSet(history) : e.game_id = game_id /\ e.user_id = user_id}

(* How many times the log holds the events of S *)
CountIn(S) == SumOver(S, [e \in S |-> CopiesIn(e, history)])

(* The greatest score among the events of S, a non-empty set *)
MaxScore(S) == CHOOSE m \in {e.score : e \in S} : \A e \in S : e.score <= m

---------------------------------------------------------------------------
(* C1: highest-wins. For every key and user, the score the index holds    *)
(* for that pair is the maximum of the scores submitted to the index for   *)
(* that key and user. Fails: all keys share one sorted set (see C2), so a  *)
(* score submitted for another key replaces it.                            *)
C1_HighestWins ==
    \A g \in Games : \A u \in DOMAIN accepted[g] :
        ZScore(IndexOf(g), u) = Some(accepted[g][u])

(* C2: namespaces are independent. A submission's index update for key K1  *)
(* leaves the index of every other key K2 as it was. Fails: every key is   *)
(* mapped to the global sorted set.                                        *)
C2_NamespacesIndependent ==
    [][\A p \in Procs :
          Leaves(p, "zadd") =>
              \A k2 \in Games \ {args[p].game_id} :
                  zsets'[_get_zset_key(k2)] = zsets[_get_zset_key(k2)]]_vars

(* C3, as stated: a page read is ordered by score descending, and entries  *)
(* of equal score by user_id ascending. Fails on any tie.                  *)
C3_TiesAscending ==
    \A p \in Procs :
        HasPage(p) =>
            LET raw == local[p].raw_entries
            IN  \A i, j \in 1..Len(raw) :
                    i < j =>
                        \/ raw[i].score > raw[j].score
                        \/ raw[i].score = raw[j].score /\ raw[i].user_id < raw[j].user_id

(* C3, amended: a page read is ordered by score descending, and entries of *)
(* equal score by user_id descending; a second read of the same range of   *)
(* an unchanged index returns the same sequence.                           *)
C3_TiesDescending ==
    \A p \in Procs :
        HasPage(p) =>
            LET raw == local[p].raw_entries
                a   == args[p]
            IN  /\ \A i, j \in 1..Len(raw) :
                       i < j =>
                           \/ raw[i].score > raw[j].score
                           \/ raw[i].score = raw[j].score /\ raw[i].user_id > raw[j].user_id
                /\ Unchanged(p) =>
                       raw = get_leaderboard_page(zsets, a.game_id,
                                 PageStart(a.page, a.page_size), PageEnd(a.page, a.page_size))

(* A page read that returned two entries of equal score *)
C3_Witness ==
    \E p \in Procs :
        /\ HasPage(p)
        /\ Len(local[p].raw_entries) = 2
        /\ local[p].raw_entries[1].score = local[p].raw_entries[2].score

(* C4: page/rank consistency. On an unchanged index, for page >= 1 and     *)
(* page_size >= 1, the entry at 0-based slot i of the page carries rank    *)
(* (page-1)*page_size + i + 1, and get_user_rank for that user returns     *)
(* that rank and that score.                                               *)
C4_PageRankConsistency ==
    \A p \in Procs :
        (IsPage(p) /\ pc[p] = "done" /\ args[p].page_size >= 1 /\ Unchanged(p)) =>
            LET a  == args[p]
                lb == local[p].page_resp.leaderboard
            IN  \A slot \in 1..Len(lb) :
                    /\ lb[slot].rank = (a.page - 1) * a.page_size + (slot - 1) + 1
                    /\ get_user_rank(zsets, lb[slot].user_id, a.game_id)
                           = [rank |-> Some(lb[slot].rank), score |-> lb[slot].score]

(* The second page of size one, answered with an entry, index unchanged *)
C4_Witness ==
    \E p \in Procs :
        /\ IsPage(p) /\ pc[p] = "done" /\ Unchanged(p)
        /\ args[p].page = 2 /\ args[p].page_size = 1
        /\ Len(local[p].page_resp.leaderboard) = 1

(* C5: cardinality. size(key) is the number of distinct users with a       *)
(* submission accepted for that key, whatever was submitted to other keys. *)
(* Fails: the one sorted set counts the users of every key (see C2).       *)
C5_Cardinality ==
    \A g \in Games : get_total_entries(zsets, g) = Cardinality(DOMAIN accepted[g])

(* C6: the total of a page response is size(key), as read by that request, *)
(* also when the page lies beyond the last entry. Fails: an empty page is  *)
(* answered with total_entries = 0.                                        *)
C6_TotalIsSize ==
    \A p \in Procs :
        (IsPage(p) /\ pc[p] = "done") =>
            local[p].page_resp.total_entries = local[p].total_entries

(* C7: a page read returns at most page_size entries, those from offset    *)
(* (page-1)*page_size of the ranking on, for page >= 1 and page_size >= 0. *)
(* Fails for page_size = 0: the range 0..-1 is the whole sorted set.       *)
C7_PageBounds ==
    \A p \in Procs :
        HasPage(p) =>
            LET raw    == local[p].raw_entries
                a      == args[p]
                offset == (a.page - 1) * a.page_size
                all    == ZRevAll(local[p].seen)
            IN  /\ Len(raw) <= a.page_size
                /\ \A i \in 1..Len(raw) :
                       /\ offset + i <= Len(all)
                       /\ raw[i] = [user_id |-> all[offset + i][1],
                                    score |-> all[offset + i][2]]

(* C8: every completed submission has appended exactly one event, its own  *)
(* (user_id, key, score), whether or not it improved the record; the       *)
(* append raises the event count by one and nothing else in the log, and   *)
(* an index step with a score not above the stored one leaves the index    *)
(* as it was.                                                              *)
C8_OneEventPerSubmit ==
    /\ [](\A p \in Procs :
              (IsSubmit(p) /\ pc[p] = "done") =>
                  Events(session[p]) = SetToBag({EventOf(args[p])}))
    /\ [][\A p \in Procs :
              (Leaves(p, "log") /\ pc'[p] # "failed") =>
                  /\ Events(session'[p]) = Events(session[p]) (+) SetToBag({EventOf(args[p])})
                  /\ EventCount' = EventCount + 1]_vars
    /\ [][\A p \in Procs :
              (Leaves(p, "zadd")
                  /\ args[p].user_id \in DOMAIN IndexOf(args[p].game_id)
                  /\ args[p].score <= IndexOf(args[p].game_id)[args[p].user_id]) =>
                  zsets' = zsets]_vars

(* A completed submission below the stored score, with its event appended *)
C8_Witness ==
    \E p \in Procs :
        /\ IsSubmit(p) /\ pc[p] = "done"
        /\ BagIn(EventOf(args[p]), Events(session[p]))
        /\ args[p].user_id \in DOMAIN IndexOf(args[p].game_id)
        /\ args[p].score < IndexOf(args[p].game_id)[args[p].user_id]

C10_AppendFailureAborts ==
    /\ [][\A p \in Procs :
              (Leaves(p, "log") /\ session'[p] = session[p]) =>
                  /\ pc'[p] = "failed"
                  /\ zsets' = zsets /\ history' = history /\ session' = session]_vars
    /\ [][\A p \in Procs :
              (Leaves(p, "failed") /\ session[p] = EmptyBag) =>
                  /\ pc'[p] = "idle"
                  /\ zsets' = zsets /\ history' = history /\ session' = session]_vars
    /\ [](\A p \in Procs :
              (IsSubmit(p) /\ pc[p] \in {"zadd", "zscore", "done"}) =>
                  session[p] # EmptyBag)

(* A submission that failed at its append *)
C10_Witness ==
    \E p \in Procs : IsSubmit(p) /\ pc[p] = "failed" /\ session[p] = EmptyBag

---------------------------------------------------------------------------
(* C11: historical correctness of values. Every entry of a report for      *)
(* (key, start, end) carries the maximum score and the number of that      *)
(* user's logged events of that key dated from start to end, both dates    *)
(* included. Fails: the dates are compared with the timestamps as          *)
(* midnights, so of the events of the end date only those logged at        *)
(* 00:00:00 are counted.                                                   *)
C11_WindowInclusive ==
    \A p \in Procs :
        HasReport(p) =>
            LET a == args[p]
            IN  \A i \in 1..Len(local[p].report) :
                    LET entry == local[p].report[i]
                        mine  == {e \in LoggedFor(a.game_id, entry.user_id) :
                                     /\ a.start_date <= DateOf(e.timestamp)
                                     /\ DateOf(e.timestamp) <= a.end_date}
                    IN  /\ mine # {}
                        /\ entry.score = MaxScore(mine)
                        /\ entry.total_scores_submitted = CountIn(mine)

(* C12: a report holds at most limit entries, exactly the first limit of   *)
(* the window's per-user aggregates in the order of max_score descending,  *)
(* ties by user_id ascending, and in that order; so one event set has one  *)
(* report. Fails: the query orders by the score alone, users of equal      *)
(* max_score come in any order and either of them may fall to the limit.   *)
C12_OrderedByScoreThenUser ==
    \A p \in Procs :
        HasReport(p) =>
            LET a      == args[p]
                rep    == local[p].report
                groups == ReportGroups(history, a.game_id, a.start_date, a.end_date)
                Before(score1, user1, score2, user2) ==
                    score1 > score2 \/ (score1 = score2 /\ user1 < user2)
            IN  /\ Len(rep) <= a.limit
                /\ Len(rep) = a.limit \/ Len(rep) = Cardinality(groups)
                /\ \A i \in 1..Len(rep) :
                       \E g \in groups : /\ g.user_id = rep[i].user_id
                                         /\ g.highest_score = rep[i].score
                /\ \A i, j \in 1..Len(rep) :
                       i < j => Before(rep[i].score, rep[i].user_id,
                                       rep[j].score, rep[j].user_id)
                /\ \A g \in groups :
                       (\A i \in 1..Len(rep) : rep[i].user_id # g.user_id) =>
                           \A i \in 1..Len(rep) :
                               Before(rep[i].score, rep[i].user_id,
                                      g.highest_score, g.user_id)

(* C13: replay consistency. Once no submission is in flight, the index of  *)
(* a key is the index rebuilt from the log by keeping, per key and user,   *)
(* the maximum logged score: the same users with the same scores, hence    *)
(* the same rank order. Stated for the runs in which the index step of     *)
(* every logged event went through. Fails: the live index of any key is    *)
(* the one global sorted set (see C2), which holds the users and scores of *)
(* every key.                                                              *)
C13_ReplayConsistency ==
    LET Rebuilt(g) ==
            [u \in {e.user_id : e \in {x \in BagToSet(history) : x.game_id = g}} |->
                MaxScore(LoggedFor(g, u))]
    IN  (/\ \A p \in Procs : pc[p] = "idle"
         /\ \A e \in BagToSet(history) :
                /\ e.user_id \in DOMAIN accepted[e.game_id]
                /\ accepted[e.game_id][e.user_id] >= e.score)
        => \A g \in Games :
               /\ IndexOf(g) = Rebuilt(g)
               /\ ZRevAll(IndexOf(g)) = ZRevAll(Rebuilt(g))

(* C14: a rank request never fails. For a user without a record in the    *)
(* index the key is read from, it is answered at once with rank = None and *)
(* score = 0; for a user with a record, with the user's 1-based rank in    *)
(* that index (one more than the number of users ahead of it) and with a   *)
(* score stored for the user while the request ran.                        *)
C14_UnrankedOrRanked ==
    \A p \in Procs :
        IsRank(p) =>
            /\ pc[p] # "failed"
            /\ pc[p] \in {"rank_zscore", "done"} =>
                   LET u     == args[p].user_id
                       z     == local[p].seen
                       ahead == {v \in DOMAIN z :
                                    z[v] > z[u] \/ (z[v] = z[u] /\ v > u)}
                       resp  == local[p].rank_resp
                   IN  IF u \notin DOMAIN z
                       THEN pc[p] = "done" /\ resp = [rank |-> None, score |-> 0]
                       ELSE pc[p] = "done" =>
                                /\ resp.rank = Some(Cardinality(ahead) + 1)
                                /\ resp.score \in {h.score : h \in local[p].held}
                                /\ Unchanged(p) => resp.score = z[u]

(* A rank request for a user without a record, answered while the index    *)
(* holds another user                                                      *)
C14_Witness ==
    \E p \in Procs :
        /\ IsRank(p) /\ pc[p] = "done"
        /\ local[p].rank_resp.rank = None
        /\ local[p].seen # EmptyZSet

(* C15: strict-greater update semantics. The index step of a submission    *)
(* with no stored record, or with a score strictly greater than the stored *)
(* one, stores the score and changes nothing else; with a score less than  *)
(* or equal to the stored one it leaves the index unchanged. The           *)
(* submission returns the submitted score in the first case and the stored *)
(* score in the second, when the index has not changed since its own step. *)
C15_StrictGreater ==
    /\ [][\A p \in Procs :
              (Leaves(p, "zadd") /\ pc'[p] # "failed") =>
                  LET a == args[p]
                      z == IndexOf(a.game_id)
                  IN  IF a.user_id \notin DOMAIN z \/ a.score > z[a.user_id]
                      THEN /\ IndexOf(a.game_id)' =
                                  [v \in DOMAIN z \cup {a.user_id} |->
                                      IF v = a.user_id THEN a.score ELSE z[v]]
                           /\ local'[p].seen[a.user_id] = a.score
                           /\ pc'[p] = "done" => local'[p].saved_score = a.score
                      ELSE /\ zsets' = zsets
                           /\ local'[p].seen[a.user_id] = z[a.user_id]]_vars
    /\ [](\A p \in Procs :
              (IsSubmit(p) /\ pc[p] = "done" /\ Unchanged(p)) =>
                  local[p].saved_score = local[p].seen[args[p].user_id])

(* A completed submission that raised the stored score of its user, and    *)
(* returned it                                                             *)
C15_Witness ==
    \E p \in Procs :
        /\ IsSubmit(p) /\ pc[p] = "done" /\ Unchanged(p)
        /\ local[p].saved_score = args[p].score
        /\ \E e \in BagToSet(history) :
               /\ e.user_id = args[p].user_id
               /\ e.score < args[p].score

(* C16: the value a submission returns is the score stored for its user    *)
(* right after the submission's own index update, also when other          *)
(* submissions for the same user run at the same time. Fails: for a user   *)
(* with a record the value is read back with a second command, and an      *)
(* update of another submission between the two is what it returns.        *)
C16_ReturnsOwnUpdate ==
    \A p \in Procs :
        (IsSubmit(p) /\ pc[p] = "done") =>
            local[p].saved_score = local[p].seen[args[p].user_id]

(* C17: the (rank, score) pair a rank request returns held together in    *)
(* one state of the index between the request's first read and its last,   *)
(* also when submissions run at the same time. Fails: rank and score are   *)
(* read with two commands, and the pair can mix the rank of before an      *)
(* update with the score of after it.                                      *)
C17_RankScoreOneState ==
    \A p \in Procs :
        (IsRank(p) /\ pc[p] = "done") => local[p].rank_resp \in local[p].held

(* A submission whose (key, user_id, score) is in the log already, with    *)
(* its improvement applied to the index                                    *)
IsRetry(p) ==
    /\ IsSubmit(p)
    /\ \E e \in BagToSet(history) : Event(e) = EventOf(args[p])
    /\ args[p].user_id \in DOMAIN accepted[args[p].game_id]
    /\ accepted[args[p].game_id][args[p].user_id] >= args[p].score

(* C18: retry safety. The index step of a retry changes nothing in the     *)
(* index: the stored score and the rank of its user, the order of all      *)
(* users and the size stay as they were; the retry then reads the stored   *)
(* score back and returns it.                                              *)
C18_RetryIsNoOp ==
    [][\A p \in Procs :
          LET a == args[p]
              z == IndexOf(a.game_id)
          IN  /\ (IsRetry(p) /\ Leaves(p, "zadd")) =>
                     /\ zsets' = zsets
                     /\ ZScore(IndexOf(a.game_id)', a.user_id) = ZScore(z, a.user_id)
                     /\ ZRevRank(IndexOf(a.game_id)', a.user_id) = ZRevRank(z, a.user_id)
                     /\ ZRevAll(IndexOf(a.game_id)') = ZRevAll(z)
                     /\ ZCard(IndexOf(a.game_id)') = ZCard(z)
                     /\ pc'[p] \in {"zscore", "failed"}
              /\ (IsRetry(p) /\ Leaves(p, "zscore") /\ pc'[p] # "failed") =>
                     /\ pc'[p] = "done"
                     /\ local'[p].saved_score = z[a.user_id]]_vars

(* A completed retry of a score below the stored one, answered with the    *)
(* stored score                                                            *)
C18_Witness ==
    \E p \in Procs :
        /\ IsRetry(p) /\ pc[p] = "done"
        /\ local[p].saved_score > args[p].score
        /\ local[p].saved_score = IndexOf(args[p].game_id)[args[p].user_id]

(* C19: index records are monotone. In every step, every record of every  *)
(* sorted set is still there afterwards, with a score that is the same or  *)
(* strictly greater.                                                       *)
C19_RecordsMonotone ==
    [][\A k \in Games : \A u \in DOMAIN zsets[k] :
          /\ u \in DOMAIN zsets'[k]
          /\ zsets'[k][u] >= zsets[k][u]]_vars

(* A record whose score has been raised: the log holds a lower score of    *)
(* the user than the index                                                 *)
C19_Witness ==
    \E k \in Games : \E u \in DOMAIN zsets[k] :
        \E e \in BagToSet(history) : e.user_id = u /\ e.score < zsets[k][u]

(* C20: queries are read-only. Every step of a page, rank or report        *)
(* request leaves the index and the event log as they were, and every      *)
(* entry of a report is made of logged events of its key and user alone:   *)
(* its score is the score of one of them and its count is no more than     *)
(* their number, whatever the index holds for that user.                   *)
C20_QueriesReadOnly ==
    /\ [][\A p \in Procs :
              (/\ pc'[p] # pc[p]
               /\ \/ args[p].op \in {"page", "rank", "report"}
                  \/ args'[p].op \in {"page", "rank", "report"}) =>
                  /\ zsets' = zsets
                  /\ history' = history]_vars
    /\ [](\A p \in Procs :
              HasReport(p) =>
                  \A i \in 1..Len(local[p].report) :
                      LET entry == local[p].report[i]
                          mine  == LoggedFor(args[p].game_id, entry.user_id)
                      IN  /\ \E e \in mine : e.score = entry.score
                          /\ entry.total_scores_submitted <= CountIn(mine))

(* A report entry whose score is not the one the index holds for the user *)
C20_Witness ==
    \E p \in Procs :
        /\ HasReport(p)
        /\ Len(local[p].report) >= 1
        /\ IndexOf(args[p].game_id)[local[p].report[1].user_id] # local[p].report[1].score

(* C21: a report request with start_date after end_date never reaches the *)
(* aggregator, and it ends with the validation failure: status 400,        *)
(* 'Start date cannot be after end date.'. Fails: the 400 is raised inside *)
(* the handler's try block and its `except Exception` turns it into a 500. *)
C21_InvertedRangeIs400 ==
    \A p \in Procs :
        (IsReport(p) /\ args[p].start_date > args[p].end_date) =>
            /\ pc[p] = "failed"
            /\ local[p].report = <<>>
            /\ local[p].error = StartAfterEnd

(* The events appended so far: committed, or flushed by an open session *)
Appended == BagToSet(history) \cup UNION {BagToSet(session[p]) : p \in Procs}

C23_TotalCoversPage ==
    \A p \in Procs :
        (IsPage(p) /\ pc[p] = "done" /\ Len(local[p].page_resp.leaderboard) > 0) =>
            LET a    == args[p]
                resp == local[p].page_resp
            IN  /\ resp.total_entries >=
                       (a.page - 1) * a.page_size + Len(resp.leaderboard)
                /\ \A i \in 1..Len(resp.leaderboard) :
                       resp.leaderboard[i].rank <= resp.total_entries

(* A page response with entries whose total counts a user added between    *)
(* the page read and the size read                                         *)
C23_Witness ==
    \E p \in Procs :
        /\ IsPage(p) /\ pc[p] = "done"
        /\ Len(local[p].page_resp.leaderboard) > 0
        /\ local[p].page_resp.total_entries > ZCard(local[p].seen)

=============================================================================
